---- MODULE Spec2Model ----
(***************************************************************************)
(* docs/config.js: the site configuration of the trame documentation.     *)
(*                                                                         *)
(* The file is a CommonJS module.  Evaluating it binds `path` (line 1)     *)
(* and assigns one object literal to module.exports (lines 6-23).  The     *)
(* model follows one Node process at a time: the module is evaluated, the  *)
(* caller of require() receives a reference to module.exports and works    *)
(* on it with the operations JavaScript gives on a plain object (property  *)
(* read, property assignment), the process exits, and a later process      *)
(* may load the file again under another environment.                      *)
(*                                                                         *)
(* JavaScript values are tagged with their typeof/Array.isArray kind:      *)
(* a string, an array, an object, a function or undefined.                 *)
(***************************************************************************)
EXTENDS Integers, Sequences, FiniteSets, TLC

VARIABLES
    pc,        \* position of the process: "start", "body", "assigned", "loaded", "exit"
    cwd,       \* process.cwd() of the running process
    nodeEnv,   \* process.env.NODE_ENV of the running process
    path,      \* the binding `const path` of line 1
    exports,   \* module.exports, the object the caller of require() holds
    observed,  \* the last property read by the caller: <<field, value>>, or <<>>
    writes,    \* property assignments made by the caller in this process
    run,       \* processes started so far
    loads      \* history: one entry per evaluation of the module

vars == <<pc, cwd, nodeEnv, path, exports, observed, writes, run, loads>>

\* ------------------------------------------------------------- bounds
MaxRuns == 2
MaxWrites == 1

\* ----------------------------------------------------- JavaScript values
Str(s) == [type |-> "string", value |-> s]
Arr(s) == [type |-> "array", value |-> s]
Obj(r) == [type |-> "object", value |-> r]
Fn(name) == [type |-> "function", value |-> name]
Undefined == [type |-> "undefined", value |-> "undefined"]

\* The environments a process may be started in.
Cwds == {"/repo/docs", "/home/ci"}
NodeEnvs == {"production", "development"}

\* The values a caller may assign to a property of the object it was handed.
AssignValues == {Str("/docs"), Arr(<<Str("static")>>)}

\* ------------------------------------------------------ docs/config.js
\* line 1: const path = require('path');  Node's path module is an object of
\* functions (join, resolve, ...) and the separator string.
RequiredPath ==
    Obj([join |-> Fn("join"), resolve |-> Fn("resolve"), sep |-> Str("/")])

\* baseUrl written with a trailing slash
baseUrlSlash == Str("/trame/")

baseUrl == Str("/trame")

\* work misspelt
workTypo == Str("./build-tmp/")

\* work resolved against the working directory: path.resolve('./build-tmp')
workResolved == Str(cwd \o "/build-tmp")

work == Str("./build-tmp")

\* api given as one path instead of a list of paths
apiString == Str("../trame")

api == Arr(<<Str("../trame")>>)

\* examples listing a directory
examplesListed == Arr(<<Str("../examples")>>)

examples == Arr(<<>>)

\* config with the analytics id left blank
configNoAnalytics ==
    Obj([title |-> Str("Trame"),
         subtitle |-> Str("\"Trame the core of your next Web Application\""),
         description |-> Str("\"Trame a solution for building interactive applications using a Web front-end\""),
         author |-> Str("Kitware Inc."),
         timezone |-> Str("UTC"),
         url |-> Str("https://kitware.github.io/trame"),
         root |-> Str("/trame/"),
         github |-> Str("kitware/trame"),
         google_analytics_4 |-> Str("")])

config ==
    Obj([title |-> Str("Trame"),
         subtitle |-> Str("\"Trame the core of your next Web Application\""),
         description |-> Str("\"Trame a solution for building interactive applications using a Web front-end\""),
         author |-> Str("Kitware Inc."),
         timezone |-> Str("UTC"),
         url |-> Str("https://kitware.github.io/trame"),
         root |-> Str("/trame/"),
         github |-> Str("kitware/trame"),
         google_analytics_4 |-> Str("G-H4W9XHTJ7X")])

\* copy given as a callback
copyCallback == Fn("copy")

copy == Arr(<<>>)

\* lines 6-23: the object literal assigned to module.exports
ModuleExports ==
    Obj([baseUrl |-> baseUrl,
         work |-> work,
         api |-> api,
         examples |-> examples,
         config |-> config,
         copy |-> copy])

\* module.exports before the module body has run: Node's fresh {}
EmptyExports == Obj([k \in {} |-> Undefined])

Init ==
    /\ pc = "start"
    /\ cwd \in Cwds
    /\ nodeEnv \in NodeEnvs
    /\ path = Undefined
    /\ exports = EmptyExports
    /\ observed = <<>>
    /\ writes = 0
    /\ run = 1
    /\ loads = <<>>

\* line 1
RequirePath ==
    /\ pc = "start"
    /\ path' = RequiredPath
    /\ pc' = "body"
    /\ UNCHANGED <<cwd, nodeEnv, exports, observed, writes, run, loads>>

\* lines 6-23
AssignExports ==
    /\ pc = "body"
    /\ exports' = ModuleExports
    /\ loads' = Append(loads, [cwd |-> cwd, nodeEnv |-> nodeEnv, exports |-> exports'])
    /\ pc' = "assigned"
    /\ UNCHANGED <<cwd, nodeEnv, path, observed, writes, run>>

\* The module body with a trailing statement after the literal:
\* module.exports.examples.push('../examples')
ReturnPatched ==
    /\ pc = "assigned"
    /\ exports' = Obj([exports.value EXCEPT !.examples =
                            Arr(Append(exports.value.examples.value, Str("../examples")))])
    /\ pc' = "loaded"
    /\ UNCHANGED <<cwd, nodeEnv, path, observed, writes, run, loads>>

\* line 23: the module body ends; require() hands module.exports to its caller.
\* No statement follows the literal, so the object is returned as assigned.
Return ==
    /\ pc = "assigned"
    /\ exports' = exports
    /\ pc' = "loaded"
    /\ UNCHANGED <<cwd, nodeEnv, path, observed, writes, run, loads>>

\* The caller reads a property of the object: every property of the literal
\* is a data property, so the read returns the stored value and changes nothing.
Read(f) ==
    /\ pc = "loaded"
    /\ f \in DOMAIN exports.value
    /\ observed' = <<f, exports.value[f]>>
    /\ UNCHANGED <<pc, cwd, nodeEnv, path, exports, writes, run, loads>>

\* The caller assigns a top-level property: the literal is an ordinary object,
\* neither frozen nor sealed, and require() hands it out by reference.
Assign(f, v) ==
    /\ pc = "loaded"
    /\ writes < MaxWrites
    /\ f \in DOMAIN exports.value
    /\ exports' = Obj([exports.value EXCEPT ![f] = v])
    /\ writes' = writes + 1
    /\ UNCHANGED <<pc, cwd, nodeEnv, path, observed, run, loads>>

\* The caller assigns a property of the nested config object.
AssignConfig(k, v) ==
    /\ pc = "loaded"
    /\ writes < MaxWrites
    /\ "config" \in DOMAIN exports.value
    /\ exports.value.config.type = "object"
    /\ k \in DOMAIN exports.value.config.value
    /\ exports' = Obj([exports.value EXCEPT !.config =
                            Obj([exports.value.config.value EXCEPT ![k] = v])])
    /\ writes' = writes + 1
    /\ UNCHANGED <<pc, cwd, nodeEnv, path, observed, run, loads>>

\* The process exits: the module cache and every binding are discarded.
Exit ==
    /\ pc = "loaded"
    /\ pc' = "exit"
    /\ path' = Undefined
    /\ exports' = EmptyExports
    /\ observed' = <<>>
    /\ writes' = 0
    /\ UNCHANGED <<cwd, nodeEnv, run, loads>>

\* A later process starts, under an environment of its own.
Start ==
    /\ pc = "exit"
    /\ run < MaxRuns
    /\ cwd' \in Cwds
    /\ nodeEnv' \in NodeEnvs
    /\ run' = run + 1
    /\ pc' = "start"
    /\ UNCHANGED <<path, exports, observed, writes, loads>>

TopFields == {"baseUrl", "work", "api", "examples", "config", "copy"}
ConfigFields == {"title", "subtitle", "description", "author", "timezone",
                 "url", "root", "github", "google_analytics_4"}

Next ==
    \/ RequirePath
    \/ AssignExports
    \/ Return
    \/ \E f \in TopFields : Read(f)
    \/ \E f \in TopFields, v \in AssignValues : Assign(f, v)
    \/ \E k \in ConfigFields, v \in AssignValues : AssignConfig(k, v)
    \/ Exit
    \/ Start

Spec == Init /\ [][Next]_vars

\* --------------------------------------------------------- properties
\* The record the i-th evaluation of the module yielded.
Loaded(i) == loads[i].exports

LastLoaded == loads[Len(loads)].exports

IsString(v) == v.type = "string"

IsStringArray(v) ==
    /\ v.type = "array"
    /\ \A i \in DOMAIN v.value : IsString(v.value[i])

\* C1: every load of the module yields a record equal, field for field, to
\* the literal values of the file.
C1_LoadYieldsLiterals ==
    \A i \in DOMAIN loads :
        LET r == Loaded(i).value
            c == r.config.value
        IN  /\ r.baseUrl = Str("/trame")
            /\ r.work = Str("./build-tmp")
            /\ r.api = Arr(<<Str("../trame")>>)
            /\ r.examples = Arr(<<>>)
            /\ r.copy = Arr(<<>>)
            /\ r.config.type = "object"
            /\ c.title = Str("Trame")
            /\ c.subtitle = Str("\"Trame the core of your next Web Application\"")
            /\ c.description = Str("\"Trame a solution for building interactive applications using a Web front-end\"")
            /\ c.author = Str("Kitware Inc.")
            /\ c.timezone = Str("UTC")
            /\ c.url = Str("https://kitware.github.io/trame")
            /\ c.root = Str("/trame/")
            /\ c.github = Str("kitware/trame")
            /\ c.google_analytics_4 = Str("G-H4W9XHTJ7X")
            /\ \A j \in DOMAIN loads : Loaded(j) = Loaded(i)

\* Two processes have each loaded the module.
C1_Witness == Len(loads) = 2 /\ pc = "loaded"

C3_TopLevelShape ==
    \A i \in DOMAIN loads :
        LET r == Loaded(i)
        IN  /\ r.type = "object"
            /\ DOMAIN r.value = {"baseUrl", "work", "api", "examples", "config", "copy"}
            /\ IsString(r.value.baseUrl)
            /\ IsString(r.value.work)
            /\ IsStringArray(r.value.api)
            /\ IsStringArray(r.value.examples)
            /\ IsStringArray(r.value.copy)
            /\ r.value.config.type = "object"

\* The module body has assigned module.exports and not yet returned.
C3_Witness == pc = "assigned" /\ Len(loads) = 1

\* C4: the nested config record has exactly the nine presentation-metadata
\* fields, and each of them is a non-empty string.
C4_ConfigShape ==
    \A i \in DOMAIN loads :
        LET c == Loaded(i).value.config
        IN  /\ c.type = "object"
            /\ DOMAIN c.value = {"title", "subtitle", "description", "author",
                                 "timezone", "url", "root", "github",
                                 "google_analytics_4"}
            /\ \A k \in DOMAIN c.value :
                   IsString(c.value[k]) /\ Len(c.value[k].value) > 0

\* The caller has been handed the record and has read nothing yet.
C4_Witness == pc = "loaded" /\ Len(loads) = 1 /\ observed = <<>> /\ writes = 0

\* C5: in the loaded record examples and copy are empty sequences and api is a
\* sequence of length exactly 1.
C5_SequenceLengths ==
    \A i \in DOMAIN loads :
        LET r == Loaded(i).value
        IN  /\ r.examples.type = "array" /\ Len(r.examples.value) = 0
            /\ r.copy.type = "array" /\ Len(r.copy.value) = 0
            /\ r.api.type = "array" /\ Len(r.api.value) = 1

\* The caller has read the api list of the record it loaded.
C5_Witness == pc = "loaded" /\ writes = 0 /\ observed # <<>> /\ observed[1] = "api"

\* A value with no callable in it: a string, a sequence of strings, or a record
\* of such values.
RECURSIVE IsPlainData(_)
IsPlainData(v) ==
    CASE v.type = "string" -> TRUE
      [] v.type = "array" -> \A i \in DOMAIN v.value : IsString(v.value[i])
      [] v.type = "object" -> \A k \in DOMAIN v.value : IsPlainData(v.value[k])
      [] OTHER -> FALSE

EndsWith(s, t) ==
    /\ Len(s) >= Len(t)
    /\ SubSeq(s, Len(s) - Len(t) + 1, Len(s)) = t

\* C8: config.root equals baseUrl followed by "/", and config.url ends with
\* baseUrl.
C8_LocationsAgree ==
    \A i \in DOMAIN loads :
        LET r == Loaded(i).value
        IN  /\ IsString(r.baseUrl)
            /\ r.config.type = "object"
            /\ IsString(r.config.value.root)
            /\ IsString(r.config.value.url)
            /\ r.config.value.root.value = r.baseUrl.value \o "/"
            /\ EndsWith(r.config.value.url.value, r.baseUrl.value)

\* The caller has read baseUrl from the record it loaded.
C8_Witness == pc = "loaded" /\ writes = 0 /\ observed # <<>> /\ observed[1] = "baseUrl"

\* C9: the loaded record does not depend on the environment: two loads under
\* different working directories or environment variables yield identical
\* records.
C9_EnvironmentIndependent ==
    \A i, j \in DOMAIN loads :
        (loads[i].cwd # loads[j].cwd \/ loads[i].nodeEnv # loads[j].nodeEnv)
            => Loaded(i) = Loaded(j)

\* Two loads under a different working directory and a different NODE_ENV.
C9_Witness ==
    /\ Len(loads) = 2
    /\ loads[1].cwd # loads[2].cwd
    /\ loads[1].nodeEnv # loads[2].nodeEnv
    /\ path = RequiredPath
====
